---- MODULE Spec2Model ----
(***************************************************************************)
(* The ExitVault front end as a state machine.  Two React root components  *)
(* are modelled: App (src/src/App.jsx) with its ConnectWallet child        *)
(* (src/unnamed/part_000), and ExitVaultUI (src/src/components/            *)
(* ExitVault.jsx).  A page mounts one of them (root).  Every await of the  *)
(* code is a suspension point: the code that runs between two awaits is    *)
(* one action, and the wallet, the provider and the contract answer each   *)
(* pending call by resolving or rejecting it.                              *)
(*                                                                         *)
(* Strings are TLA+ strings.  Token amounts are integers in units of       *)
(* 10^-Decimals ETH (ethers uses 18 decimals; TLC's integers are 32 bit).  *)
(***************************************************************************)
EXTENDS Integers, Sequences, FiniteSets, TLC

VARIABLES
    root,          \* which root component the page mounts
    hasWallet,     \* window.ethereum is present
    account,       \* useState account (App.jsx:25, ExitVault.jsx:22)
    contract,      \* useState contract: 0 is null, n the n-th Contract object
    signer,        \* ExitVaultUI useState signer (address of the signer, or NULL)
    balance,       \* App balance / ExitVaultUI balanceEth (displayed string)
    amount,        \* App amount / ExitVaultUI inputEth (input string)
    loading,       \* App useState loading
    txStatus,      \* App useState txStatus
    txHash,        \* App useState txHash
    message,       \* App message / ExitVaultUI status (displayed string)
    explorerBase,  \* App useState explorerBase
    txs,           \* ExitVaultUI activity log, newest first
    alertText,     \* text of the last alert() shown by ConnectWallet
    tasks,         \* the async calls in flight, each suspended at an await
    handles,       \* the Contract objects created so far: handle n's signer address
    listeners,     \* per Contract object, the number of Invest/Withdraw listener pairs
    vaultBal,      \* the contract's storage: balance per address, in base units
    chainId,       \* the chain the wallet is on
    clock,         \* number of addTx calls so far (the time of the newest entry)
    mounted,       \* App is mounted (its effects have run and not been cleaned up)
    subs,          \* the handlers App's effect has subscribed on window.ethereum
    counts,        \* how many operations of each bounded kind have been started
    hist           \* what the last step did, and what the displayed fields describe

vars == << root, hasWallet, account, contract, signer, balance, amount, loading,
           txStatus, txHash, message, explorerBase, txs, alertText, tasks, handles,
           listeners, vaultBal, chainId, clock, mounted, subs, counts, hist >>

(***************************************************************************)
(* Bounds of the model.                                                    *)
(***************************************************************************)
Decimals == 2
MaxConnects == 1
MaxActions == 2
MaxAccountEvents == 2
MaxChainEvents == 1
MaxRefreshes == 1
MaxInFlight == 2
MaxStimuli == 4
MaxUIStimuli == 3
MaxContractEvents == 1
PriorEvents == 19
MaxRemounts == 1

\* addTx keeps the 20 newest entries (ExitVault.jsx:112)
MaxTxs == 20

NULL == "null"
NaN == -1
Addrs == {"0xA1", "0xB2"}
ChainIds == {1, 5, 11155111, 137}
AmountInputs == {"", "0", "0.5", "0.005"}

(***************************************************************************)
(* Strings and numbers.                                                    *)
(***************************************************************************)
\* Substr(s, a, b): the characters a..b of s (1-based), clipped to the string.
Substr(s, a, b) ==
    LET hi == IF b > Len(s) THEN Len(s) ELSE b
    IN  IF a < 1 \/ a > hi THEN "" ELSE SubSeq(s, a, hi)

CharAt(s, i) == Substr(s, i, i)

Pow10(n) == IF n = 0 THEN 1 ELSE IF n = 1 THEN 10 ELSE IF n = 2 THEN 100 ELSE 1000

Unit == Pow10(Decimals)

IsDigit(c) == \E d \in 0..9 : CharAt("0123456789", d + 1) = c

DigitVal(c) == CHOOSE d \in 0..9 : CharAt("0123456789", d + 1) = c

AllDigits(s) == \A i \in 1..Len(s) : IsDigit(CharAt(s, i))

RECURSIVE DecVal(_)
DecVal(s) ==
    IF s = "" THEN 0
    ELSE DecVal(Substr(s, 1, Len(s) - 1)) * 10 + DigitVal(CharAt(s, Len(s)))

\* Contains(s, sub): String.prototype.includes
Contains(s, sub) ==
    \E i \in 1..(Len(s) - Len(sub) + 1) : Substr(s, i, i + Len(sub) - 1) = sub

\* The parts of a decimal literal: sign, digits before and after the first dot.
DecimalParts(s) ==
    LET neg  == Len(s) > 0 /\ CharAt(s, 1) = "-"
        body == IF neg THEN Substr(s, 2, Len(s)) ELSE s
        dots == {i \in 1..Len(body) : CharAt(body, i) = "."}
        dot  == IF dots = {} THEN Len(body) + 1
                ELSE CHOOSE i \in dots : \A j \in dots : i <= j
        whole == Substr(body, 1, dot - 1)
        frac  == Substr(body, dot + 1, Len(body))
    IN [neg |-> neg, whole |-> whole, frac |-> frac,
        valid |-> AllDigits(whole) /\ AllDigits(frac) /\ Len(whole) + Len(frac) > 0]

\* Number(amount) <= 0 for a plain decimal literal; Number("") is 0, and a
\* string that is no number gives NaN, for which the comparison is false.
NumberLeqZero(s) ==
    LET p == DecimalParts(s)
    IN  IF s = "" THEN TRUE
        ELSE IF ~p.valid THEN FALSE
        ELSE p.neg \/ (DecVal(p.whole) = 0 /\ DecVal(p.frac) = 0)

\* ethers.parseEther: the value in base units, or a throw (ok = FALSE) for a
\* string that is no decimal literal or has non-zero digits past the precision.
parseEther(s) ==
    LET p == DecimalParts(s)
        kept   == Substr(p.frac, 1, Decimals)
        excess == Substr(p.frac, Decimals + 1, Len(p.frac))
        ok  == p.valid /\ DecVal(excess) = 0
        mag == DecVal(p.whole) * Unit + DecVal(kept) * Pow10(Decimals - Len(kept))
    IN  IF ok THEN [ok |-> TRUE, value |-> IF p.neg THEN 0 - mag ELSE mag]
        ELSE [ok |-> FALSE, value |-> 0]

RECURSIVE StripZeros(_)
StripZeros(s) ==
    IF Len(s) > 1 /\ CharAt(s, Len(s)) = "0"
    THEN StripZeros(Substr(s, 1, Len(s) - 1)) ELSE s

RECURSIVE PadLeft(_, _)
PadLeft(s, n) == IF Len(s) >= n THEN s ELSE PadLeft("0" \o s, n)

\* ethers.formatEther of a non-negative value: at least one fractional digit,
\* trailing zeros stripped ("1.0", "0.5", "1.25").
formatEther(raw) ==
    ToString(raw \div Unit) \o "." \o StripZeros(PadLeft(ToString(raw % Unit), Decimals))

HexDigits == "0123456789abcdef"
HexUpper  == "0123456789ABCDEF"

IsHex(c) == \E d \in 0..15 : CharAt(HexDigits, d + 1) = c \/ CharAt(HexUpper, d + 1) = c

HexVal(c) == CHOOSE d \in 0..15 : CharAt(HexDigits, d + 1) = c \/ CharAt(HexUpper, d + 1) = c

RECURSIVE HexPrefixLen(_)
HexPrefixLen(s) ==
    IF s = "" \/ ~IsHex(CharAt(s, 1)) THEN 0
    ELSE 1 + HexPrefixLen(Substr(s, 2, Len(s)))

RECURSIVE HexNum(_)
HexNum(s) ==
    IF s = "" THEN 0
    ELSE HexNum(Substr(s, 1, Len(s) - 1)) * 16 + HexVal(CharAt(s, Len(s)))

RECURSIVE DigitPrefixLen(_)
DigitPrefixLen(s) ==
    IF s = "" \/ ~IsDigit(CharAt(s, 1)) THEN 0
    ELSE 1 + DigitPrefixLen(Substr(s, 2, Len(s)))

\* parseInt(chainId, 10)
MutparseInt16(s) ==
    IF DigitPrefixLen(s) = 0 THEN NaN ELSE DecVal(Substr(s, 1, DigitPrefixLen(s)))

\* parseInt(chainId, 16): optional 0x prefix, then the longest run of hex
\* digits; NaN when there is none.
parseInt16(s) ==
    LET body == IF Len(s) >= 2 /\ Substr(s, 1, 2) \in {"0x", "0X"}
                THEN Substr(s, 3, Len(s)) ELSE s
        n == HexPrefixLen(body)
    IN  IF n = 0 THEN NaN ELSE HexNum(Substr(body, 1, n))

RECURSIVE HexStr(_)
HexStr(n) ==
    IF n < 16 THEN CharAt(HexDigits, n + 1)
    ELSE HexStr(n \div 16) \o CharAt(HexDigits, (n % 16) + 1)

\* The chainChanged payload the wallet sends for a chain: a 0x-prefixed hex string.
ToHex(n) == "0x" \o HexStr(n)

NumStr(n) == IF n = NaN THEN "NaN" ELSE ToString(n)

EXPLORER_BY_CHAIN ==
    (1 :> "https://etherscan.io") @@
    (5 :> "https://goerli.etherscan.io") @@
    (11155111 :> "https://sepolia.etherscan.io")

explorerBaseForChain(c) ==
    IF c \in DOMAIN EXPLORER_BY_CHAIN THEN EXPLORER_BY_CHAIN[c] ELSE "https://etherscan.io"


(***************************************************************************)
(* The environment: errors a provider call can reject with, receipts,      *)
(* accountsChanged payloads.                                               *)
(***************************************************************************)
Errors ==
    { [code |-> 4001, dataCode |-> 0, reason |-> "", message |-> "User rejected the request."],
      [code |-> -32603, dataCode |-> 4001, reason |-> "", message |-> "Internal JSON-RPC error."],
      [code |-> 0, dataCode |-> 0, reason |-> "execution reverted", message |-> "call exception"],
      [code |-> 0, dataCode |-> 0, reason |-> "", message |-> "network error"] }

\* the errors of calls whose catch block reads only err.message
ReadErrors == {e \in Errors : e.message = "network error"}

\* receipt: "1" and "0" are receipt.status, "null" is a null receipt
Receipts == {"1", "0", NULL}

\* receipt && receipt.status === 1
ReceiptOk(receipt) == receipt # NULL /\ receipt = "1"

PromptInputs == {"", "0.5", "abc"}

AccountLists ==
    { [present |-> FALSE, list |-> << >>], [present |-> TRUE, list |-> << >>],
      [present |-> TRUE, list |-> <<"0xA1">>], [present |-> TRUE, list |-> <<"0xB2", "0xA1">>] }

TxHashOf(n) == "0xf" \o ToString(n)

\* err?.reason || err?.message || err
ReasonOrMessage(err) == IF err.reason # "" THEN err.reason ELSE err.message

MutIsUserRejection(err) == err.code = 4001

\* err?.code === 4001 || err?.data?.code === 4001
IsUserRejection(err) == err.code = 4001 \/ err.dataCode = 4001

Task(id, op, pc, vault, addr, value, hash) ==
    [id |-> id, op |-> op, pc |-> pc, vault |-> vault, addr |-> addr,
     value |-> value, hash |-> hash, text |-> "", reads |-> 0, awaits |-> 0,
     receipt |-> FALSE, sentAt |-> 0, shown |-> balance, base |-> IF vault = 0 THEN 0 ELSE vaultBal[handles[vault]]]

\* The id of a new async call: the smallest id no call in flight holds.
NewId == CHOOSE n \in 1..(Cardinality(tasks) + 1) :
             /\ \A t \in tasks : t.id # n
             /\ \A m \in 1..(n - 1) : \E t \in tasks : t.id = m

\* A new async call can start (bound of the model on the calls in flight).
CanStart == Cardinality(tasks) < MaxInFlight

\* The user or the wallet can act once more (bound of the model on the clicks,
\* keystrokes and wallet notifications of a run).
CanAct == counts.stimuli < (IF root = "App" THEN MaxStimuli ELSE MaxUIStimuli)

\* The fields of the page that an App step leaves alone unless it says otherwise.
VaultUIVars == << signer, txs, listeners, clock >>
ChainVars == << vaultBal, chainId >>

\* hist before anything has happened.
NoHist ==
    [step |-> "init", id |-> 0, fetchOk |-> FALSE, reads |-> 0, receipt |-> FALSE,
     shown |-> "", base |-> 0, value |-> 0, vault |-> 0, addr |-> NULL,
     code |-> 0, dataCode |-> 0, awaits |-> 0, statusBy |-> 0, hashBy |-> 0, lastAction |-> 0,
     hasReport |-> FALSE, reported |-> 0, callbacks |-> 0]

MutDashboardEnabled ==
    root = "App" /\ mounted /\ account # NULL /\ ~loading /\ \A t \in tasks : t.op \notin {"invest", "withdraw"}

\* The dashboard (balance, amount input, Invest/Withdraw/Refresh) is rendered
\* only while account is set; its controls are disabled while loading.
DashboardEnabled == root = "App" /\ mounted /\ account # NULL /\ ~loading


\* hist after a step: what the step was, with the fields that describe a single
\* step reset; statusBy, hashBy, lastAction, hasReport, reported and callbacks persist.
Step(label, id) ==
    [hist EXCEPT !.step = label, !.id = id, !.fetchOk = FALSE, !.reads = 0,
                 !.receipt = FALSE, !.shown = "", !.base = 0, !.value = 0,
                 !.vault = 0, !.addr = NULL, !.code = 0, !.dataCode = 0, !.awaits = 0]

(***************************************************************************)
(* ConnectWallet (the Wallet Connector) and App.handleConnected.           *)
(***************************************************************************)
\* The body of App's effect on [contract]: without a wallet it returns at once;
\* with one it subscribes onAccountsChanged and onChainChanged, whose closures
\* see the contract c of this render.
Subscribe(c) ==
    IF hasWallet
    THEN << [event |-> "accountsChanged", contract |-> c],
            [event |-> "chainChanged", contract |-> c] >>
    ELSE << >>

RECURSIVE Without(_, _)
\* The handlers ss without those of the effect run of contract c.
Without(ss, c) ==
    IF ss = << >> THEN << >>
    ELSE IF Head(ss).contract = c THEN Without(Tail(ss), c)
    ELSE << Head(ss) >> \o Without(Tail(ss), c)

MutCleanup(ss, c) == ss

\* The cleanup the effect returned for the run of contract c: removeListener of
\* the two handlers of that run.
Cleanup(ss, c) == Without(ss, c)

\* A commit that changed contract from old to new: the cleanup of the previous
\* run, then the effect again.
EffectRerun(ss, old, new) ==
    IF old = new THEN ss ELSE Cleanup(ss, old) \o Subscribe(new)

Subscribed(event) == \E i \in 1..Len(subs) : subs[i].event = event

\* Click on Connect Wallet: connectWallet up to its first await.
ConnectClick ==
    /\ root = "App" /\ mounted
    /\ counts.connects < MaxConnects
    /\ ~hasWallet \/ CanStart
    /\ CanAct
    /\ counts' = [counts EXCEPT !.connects = @ + 1, !.stimuli = @ + 1]
    /\ IF ~hasWallet
       THEN /\ alertText' = "MetaMask not detected"
            /\ tasks' = tasks
            /\ hist' = Step("connect.nowallet", 0)
       ELSE /\ alertText' = alertText
            /\ tasks' = tasks \cup {Task(NewId, "connectWallet", "requestAccounts", 0, NULL, 0, NULL)}
            /\ hist' = Step("connect.start", NewId)
    /\ UNCHANGED << root, hasWallet, mounted, subs, account, contract, balance, amount, loading, txStatus,
                    txHash, message, explorerBase, handles, VaultUIVars, ChainVars >>

\* handleConnected up to its first await (prov.getNetwork()).
handleConnected(t, vault, address) ==
    /\ account' = address
    /\ contract' = vault
    /\ message' = "Wallet connected: " \o address
    /\ tasks' = (tasks \ {t}) \cup
                {[t EXCEPT !.op = "handleConnected", !.pc = "getNetwork",
                           !.vault = vault, !.addr = address]}

\* An await of connectWallet resolves: eth_requestAccounts, getSigner, then
\* getAddress, after which the Contract is built and onConnected is called.
ConnectResolve(t, addr) ==
    /\ t \in tasks /\ t.op = "connectWallet"
    /\ \/ /\ t.pc = "requestAccounts"
          /\ tasks' = (tasks \ {t}) \cup {[t EXCEPT !.pc = "getSigner", !.awaits = @ + 1]}
          /\ hist' = Step("connect.authorized", t.id)
          /\ UNCHANGED << account, contract, message, handles, subs >>
       \/ /\ t.pc = "getSigner"
          /\ tasks' = (tasks \ {t}) \cup {[t EXCEPT !.pc = "getAddress", !.awaits = @ + 1]}
          /\ hist' = Step("connect.signer", t.id)
          /\ UNCHANGED << account, contract, message, handles, subs >>
       \/ /\ t.pc = "getAddress"
          /\ handles' = Append(handles, addr)
          /\ handleConnected(t, Len(handles) + 1, addr)
          /\ subs' = EffectRerun(subs, contract, Len(handles) + 1)
          /\ hist' = [Step("connect.onConnected", t.id) EXCEPT
                         !.callbacks = @ + 1, !.addr = addr, !.awaits = t.awaits + 1]
    /\ UNCHANGED << root, hasWallet, mounted, balance, amount, loading, txStatus, txHash,
                    explorerBase, alertText, counts, VaultUIVars, ChainVars >>

MutFailureAlert(err) == alertText

\* The alert of connectWallet's catch block.
FailureAlert(err) == "Failed to connect wallet: " \o err.message

\* Any await of connectWallet rejects: the catch block alerts.
ConnectReject(t, err) ==
    /\ t \in tasks /\ t.op = "connectWallet"
    /\ alertText' = FailureAlert(err)
    /\ tasks' = tasks \ {t}
    /\ hist' = Step("connect.failed", t.id)
    /\ UNCHANGED << root, hasWallet, mounted, subs, account, contract, balance, amount, loading, txStatus,
                    txHash, message, explorerBase, handles, counts, VaultUIVars, ChainVars >>

\* prov.getNetwork() settles; handleConnected goes on into fetchVaultBalance(vault, address),
\* which runs up to its await of vault.balances.
GetNetworkSettle(t, ok) ==
    /\ t \in tasks /\ t.op = "handleConnected" /\ t.pc = "getNetwork"
    /\ explorerBase' = IF ok THEN explorerBaseForChain(chainId) ELSE explorerBase
    /\ loading' = TRUE
    /\ tasks' = (tasks \ {t}) \cup {[t EXCEPT !.pc = "balances", !.reads = @ + 1]}
    /\ hist' = [Step(IF ok THEN "network.ok" ELSE "network.failed", t.id)
                   EXCEPT !.reported = IF ok THEN chainId ELSE @,
                          !.hasReport = ok \/ @]
    /\ UNCHANGED << root, hasWallet, mounted, subs, account, contract, balance, amount, txStatus, txHash,
                    message, alertText, handles, counts, VaultUIVars, ChainVars >>


(***************************************************************************)
(* App.fetchVaultBalance.                                                  *)
(***************************************************************************)
MutRawBalanceAfterRead(addr, ok) == IF ok THEN ToString(vaultBal[addr]) ELSE balance

MutBalanceAfterRead(addr, ok) == IF ok THEN formatEther(vaultBal[addr]) ELSE "0"

\* The balance displayed after vault.balances(addr) settled: setBalance runs only
\* when the read resolved.
BalanceAfterRead(addr, ok) == IF ok THEN formatEther(vaultBal[addr]) ELSE balance

\* The await of vault.balances(addr) settles, in fetchVaultBalance called from
\* handleConnected, Refresh, onAccountsChanged, invest or withdraw.  The caller's
\* code after `await fetchVaultBalance(...)` runs in the same step.
BalancesSettle(t, ok, err) ==
    /\ root = "App"
    /\ t \in tasks /\ t.pc = "balances"
    /\ balance' = BalanceAfterRead(t.addr, ok)
    /\ message' = IF ok THEN "Balance updated"
                  ELSE "Failed to fetch balance: " \o err.message
    /\ loading' = FALSE
    /\ amount' = IF t.op = "invest" THEN "" ELSE amount
    /\ tasks' = tasks \ {t}
    /\ hist' = [Step(t.op \o ".done", t.id) EXCEPT
                   !.fetchOk = ok, !.reads = t.reads, !.receipt = t.receipt,
                   !.shown = t.shown, !.base = t.base, !.value = t.value,
                   !.vault = t.vault, !.addr = t.addr]
    /\ UNCHANGED << root, hasWallet, mounted, subs, account, contract, txStatus, txHash, explorerBase,
                    alertText, handles, counts, VaultUIVars, ChainVars >>

\* Click on Refresh: fetchVaultBalance() with the defaults contract and account.
RefreshClick ==
    /\ DashboardEnabled
    /\ counts.refreshes < MaxRefreshes
    /\ CanAct
    /\ contract = 0 \/ CanStart
    /\ IF contract = 0
       THEN /\ tasks' = tasks
            /\ counts' = [counts EXCEPT !.refreshes = @ + 1, !.stimuli = @ + 1]
            /\ hist' = Step("refresh.nocontract", 0)
       ELSE /\ tasks' = tasks \cup
                  {[Task(NewId, "fetchVaultBalance", "balances", contract, account, 0, NULL)
                       EXCEPT !.reads = 1]}
            /\ counts' = [counts EXCEPT !.refreshes = @ + 1, !.stimuli = @ + 1]
            /\ hist' = Step("refresh.start", NewId)
    /\ loading' = (contract # 0)
    /\ UNCHANGED << root, hasWallet, mounted, subs, account, contract, balance, amount, txStatus, txHash,
                    message, explorerBase, alertText, handles, VaultUIVars, ChainVars >>

\* Typing into the amount input.
SetAmount(s) ==
    /\ DashboardEnabled
    /\ s # amount
    /\ CanAct
    /\ amount' = s
    /\ counts' = [counts EXCEPT !.stimuli = @ + 1]
    /\ hist' = Step("setAmount", 0)
    /\ UNCHANGED << root, hasWallet, mounted, subs, account, contract, balance, loading, txStatus, txHash,
                    message, explorerBase, alertText, tasks, handles,
                    VaultUIVars, ChainVars >>

(***************************************************************************)
(* App.invest and App.withdraw.                                            *)
(***************************************************************************)
\* Click on Invest: invest up to its await of contract.invest({ value }).
InvestClick ==
    /\ DashboardEnabled
    /\ CanAct
    /\ IF contract = 0
       THEN /\ message' = "Connect wallet first"
            /\ hist' = Step("invest.nocontract", 0)
            /\ counts' = [counts EXCEPT !.stimuli = @ + 1]
            /\ UNCHANGED << txStatus, txHash, loading, tasks >>
       ELSE IF amount = "" \/ NumberLeqZero(amount)
       THEN /\ message' = "Enter a valid amount in ETH"
            /\ hist' = Step("invest.badamount", 0)
            /\ counts' = [counts EXCEPT !.stimuli = @ + 1]
            /\ UNCHANGED << txStatus, txHash, loading, tasks >>
       ELSE /\ counts.actions < MaxActions
            /\ CanStart
            /\ counts' = [counts EXCEPT !.actions = @ + 1, !.stimuli = @ + 1]
            /\ txHash' = NULL
            /\ IF parseEther(amount).ok
               THEN /\ txStatus' = NULL
                    /\ loading' = TRUE
                    /\ message' = "Preparing transaction..."
                    /\ tasks' = tasks \cup
                          {Task(NewId, "invest", "submit", contract, account,
                                parseEther(amount).value, NULL)}
                    /\ hist' = [Step("invest.start", NewId) EXCEPT
                                   !.lastAction = NewId, !.statusBy = NewId, !.hashBy = NewId]
               ELSE /\ txStatus' = "failed"
                    /\ loading' = FALSE
                    /\ message' = "Investment failed: " \o "invalid FixedNumber string value"
                    /\ tasks' = tasks
                    /\ hist' = [Step("invest.parseThrew", NewId) EXCEPT
                                   !.lastAction = NewId, !.statusBy = NewId, !.hashBy = NewId]
    /\ UNCHANGED << root, hasWallet, mounted, subs, account, contract, balance, amount, explorerBase,
                    alertText, handles, VaultUIVars, ChainVars >>

\* Click on Withdraw: withdraw up to its await of contract.withdraw().
WithdrawClick ==
    /\ DashboardEnabled
    /\ CanAct
    /\ IF contract = 0
       THEN /\ message' = "Connect wallet first"
            /\ hist' = Step("withdraw.nocontract", 0)
            /\ counts' = [counts EXCEPT !.stimuli = @ + 1]
            /\ UNCHANGED << txStatus, txHash, loading, tasks >>
       ELSE /\ counts.actions < MaxActions
            /\ CanStart
            /\ counts' = [counts EXCEPT !.actions = @ + 1, !.stimuli = @ + 1]
            /\ txStatus' = NULL
            /\ txHash' = NULL
            /\ loading' = TRUE
            /\ message' = "Submitting withdrawal..."
            /\ tasks' = tasks \cup
                  {Task(NewId, "withdraw", "submit", contract, account, 0, NULL)}
            /\ hist' = [Step("withdraw.start", NewId) EXCEPT
                           !.lastAction = NewId, !.statusBy = NewId, !.hashBy = NewId]
    /\ UNCHANGED << root, hasWallet, mounted, subs, account, contract, balance, amount, explorerBase,
                    alertText, handles, VaultUIVars, ChainVars >>

IsAction(t) == t.op \in {"invest", "withdraw"}

\* contract.invest / contract.withdraw resolves with a transaction response.
SubmitResolve(t) ==
    /\ root = "App"
    /\ t \in tasks /\ IsAction(t) /\ t.pc = "submit"
    /\ counts' = [counts EXCEPT !.nonce = @ + 1]
    /\ txStatus' = "pending"
    /\ txHash' = TxHashOf(counts.nonce + 1)
    /\ message' = IF t.op = "invest"
                  THEN "Transaction submitted. Waiting for confirmation..."
                  ELSE "Withdrawal submitted. Waiting for confirmation..."
    /\ tasks' = (tasks \ {t}) \cup
                {[t EXCEPT !.pc = "wait", !.hash = TxHashOf(counts.nonce + 1)]}
    /\ hist' = [Step(t.op \o ".submitted", t.id) EXCEPT !.statusBy = t.id, !.hashBy = t.id]
    /\ UNCHANGED << root, hasWallet, mounted, subs, account, contract, balance, amount, loading,
                    explorerBase, alertText, handles, VaultUIVars, ChainVars >>

\* The catch and finally blocks of invest / withdraw.
CatchAction(t, err) ==
    /\ message' = IF IsUserRejection(err) THEN "Transaction rejected by user."
                  ELSE (IF t.op = "invest" THEN "Investment failed: "
                        ELSE "Withdrawal failed: ") \o ReasonOrMessage(err)
    /\ txStatus' = "failed"
    /\ loading' = FALSE
    /\ tasks' = tasks \ {t}

\* contract.invest / contract.withdraw rejects.
SubmitReject(t, err) ==
    /\ root = "App"
    /\ t \in tasks /\ IsAction(t) /\ t.pc = "submit"
    /\ CatchAction(t, err)
    /\ hist' = [Step(t.op \o ".submitThrew", t.id) EXCEPT
                   !.statusBy = t.id, !.code = err.code, !.dataCode = err.dataCode, !.reads = t.reads]
    /\ UNCHANGED << root, hasWallet, mounted, subs, account, contract, balance, amount, txHash,
                    explorerBase, alertText, handles, counts, VaultUIVars, ChainVars >>

\* What a mined transaction does to the contract's balances: invest credits the
\* value to the sender, withdraw pays the sender's whole balance out.
Mined(t) ==
    LET sender == handles[t.vault]
    IN  [vaultBal EXCEPT ![sender] = IF t.op = "invest" THEN @ + t.value ELSE 0]

\* txResponse.wait() resolves with a receipt; the handler sets the status and
\* goes on into fetchVaultBalance(contract, account), up to its await.
WaitResolve(t, receipt) ==
    /\ root = "App"
    /\ t \in tasks /\ IsAction(t) /\ t.pc = "wait"
    /\ vaultBal' = IF receipt = "1" THEN Mined(t) ELSE vaultBal
    /\ IF ReceiptOk(receipt)
       THEN /\ txStatus' = "confirmed"
            /\ message' = (IF t.op = "invest" THEN "Investment confirmed - Tx: "
                           ELSE "Withdrawal confirmed - Tx: ") \o t.hash
       ELSE /\ txStatus' = "failed"
            /\ message' = (IF t.op = "invest"
                           THEN "Transaction failed (receipt.status !== 1). Tx: "
                           ELSE "Withdrawal failed - Tx: ") \o t.hash
    /\ loading' = TRUE
    /\ tasks' = (tasks \ {t}) \cup
                {[t EXCEPT !.pc = "balances", !.reads = @ + 1, !.receipt = ReceiptOk(receipt)]}
    /\ hist' = [Step(t.op \o ".receipt", t.id) EXCEPT !.statusBy = t.id]
    /\ UNCHANGED << root, hasWallet, mounted, subs, account, contract, balance, amount, txHash,
                    explorerBase, alertText, handles, counts, chainId, VaultUIVars >>

\* txResponse.wait() rejects.
WaitReject(t, err) ==
    /\ root = "App"
    /\ t \in tasks /\ IsAction(t) /\ t.pc = "wait"
    /\ CatchAction(t, err)
    /\ hist' = [Step(t.op \o ".waitThrew", t.id) EXCEPT
                   !.statusBy = t.id, !.code = err.code, !.dataCode = err.dataCode, !.reads = t.reads]
    /\ UNCHANGED << root, hasWallet, mounted, subs, account, contract, balance, amount, txHash,
                    explorerBase, alertText, handles, counts, VaultUIVars, ChainVars >>


(***************************************************************************)
(* App's wallet listeners (the useEffect on [contract]).                   *)
(***************************************************************************)
MutClearedSession == [account |-> NULL, contract |-> contract, message |-> "Disconnected"]

\* The session fields after onAccountsChanged with an empty or missing list.
ClearedSession == [account |-> NULL, contract |-> 0, message |-> "Disconnected"]

MutAdoptedAccount(accounts) == accounts.list[Len(accounts.list)]

\* accounts[0], the address onAccountsChanged adopts.
AdoptedAccount(accounts) == accounts.list[1]

\* onAccountsChanged: the closure sees the current contract, because the effect
\* re-subscribes whenever contract changes.
onAccountsChanged(accounts) ==
    /\ root = "App" /\ hasWallet /\ Subscribed("accountsChanged")
    /\ counts.accounts < MaxAccountEvents
    /\ CanAct
    /\ contract = 0 \/ CanStart
    /\ IF ~accounts.present \/ Len(accounts.list) = 0
       THEN /\ account' = ClearedSession.account
            /\ contract' = ClearedSession.contract
            /\ message' = ClearedSession.message
            /\ counts' = [counts EXCEPT !.accounts = @ + 1, !.stimuli = @ + 1]
            /\ hist' = Step("accountsChanged.empty", 0)
            /\ subs' = EffectRerun(subs, contract, ClearedSession.contract)
            /\ UNCHANGED << loading, tasks >>
       ELSE /\ account' = AdoptedAccount(accounts)
            /\ contract' = contract
            /\ subs' = subs
            /\ message' = "Account changed: " \o AdoptedAccount(accounts)
            /\ IF contract # 0
               THEN /\ loading' = TRUE
                    /\ tasks' = tasks \cup
                          {[Task(NewId, "fetchVaultBalance", "balances", contract,
                                 AdoptedAccount(accounts), 0, NULL) EXCEPT !.reads = 1]}
                    /\ counts' = [counts EXCEPT !.accounts = @ + 1, !.stimuli = @ + 1]
                    /\ hist' = [Step("accountsChanged.fetch", NewId)
                                   EXCEPT !.addr = Head(accounts.list)]
               ELSE /\ UNCHANGED << loading, tasks >>
                    /\ counts' = [counts EXCEPT !.accounts = @ + 1, !.stimuli = @ + 1]
                    /\ hist' = [Step("accountsChanged.nocontract", 0)
                                   EXCEPT !.addr = Head(accounts.list)]
    /\ UNCHANGED << root, hasWallet, mounted, balance, amount, txStatus, txHash, explorerBase,
                    alertText, handles, VaultUIVars, ChainVars >>

\* The wallet switches to chain c and notifies chainChanged with the hex chain id.
onChainChanged(c) ==
    /\ root = "App" /\ hasWallet /\ Subscribed("chainChanged")
    /\ counts.chains < MaxChainEvents
    /\ CanAct
    /\ c # chainId
    /\ chainId' = c
    /\ LET dec == parseInt16(ToHex(c))
       IN  /\ explorerBase' = explorerBaseForChain(dec)
           /\ message' = "Network changed: " \o NumStr(dec)
           /\ hist' = [Step("chainChanged", 0) EXCEPT !.reported = c, !.hasReport = TRUE]
    /\ counts' = [counts EXCEPT !.chains = @ + 1, !.stimuli = @ + 1]
    /\ UNCHANGED << root, hasWallet, mounted, subs, account, contract, balance, amount, loading, txStatus,
                    txHash, alertText, tasks, handles, vaultBal, VaultUIVars >>

\* App is torn down: the effect's cleanup runs; the calls in flight can no longer
\* change what is displayed (their state updates are dropped), and the state is
\* kept as it was until a new mount replaces it.
Unmount ==
    /\ root = "App" /\ mounted
    /\ counts.mounts < MaxRemounts + 1
    /\ CanAct
    /\ mounted' = FALSE
    /\ subs' = IF hasWallet THEN Cleanup(subs, contract) ELSE subs
    /\ tasks' = {}
    /\ counts' = [counts EXCEPT !.mounts = @ + 1, !.stimuli = @ + 1]
    /\ hist' = Step("unmount", 0)
    /\ UNCHANGED << root, hasWallet, account, contract, balance, amount, loading, txStatus,
                    txHash, message, explorerBase, alertText, handles, VaultUIVars,
                    ChainVars >>

\* App is mounted again: fresh useState values, and the effect runs.
Remount ==
    /\ root = "App" /\ ~mounted
    /\ counts.mounts <= MaxRemounts
    /\ mounted' = TRUE
    /\ subs' = subs \o Subscribe(0)
    /\ account' = NULL /\ contract' = 0 /\ balance' = "0" /\ amount' = ""
    /\ loading' = FALSE /\ txStatus' = NULL /\ txHash' = NULL /\ message' = ""
    /\ explorerBase' = EXPLORER_BY_CHAIN[1]
    /\ hist' = [NoHist EXCEPT !.step = "mount", !.callbacks = hist.callbacks]
    /\ UNCHANGED << root, hasWallet, alertText, tasks, handles, counts, VaultUIVars,
                    ChainVars >>

(***************************************************************************)
(* ExitVaultUI.                                                            *)
(***************************************************************************)
AppVars == << loading, txStatus, txHash, explorerBase, alertText, subs >>

MutUnsentaddTx(log, hash, note, time) ==
    IF note = "Invest (sent)" THEN log
    ELSE SubSeq(<< [hash |-> hash, note |-> note, time |-> time] >> \o log, 1,
                IF Len(log) + 1 > MaxTxs THEN MaxTxs ELSE Len(log) + 1)

MutaddTx(log, hash, note, time) ==
    LET s == << [hash |-> hash, note |-> note, time |-> time] >> \o log
    IN  SubSeq(s, IF Len(s) > MaxTxs THEN Len(s) - MaxTxs + 1 ELSE 1, Len(s))

\* addTx: the new entry first, then the log, cut to the first MaxTxs entries.
addTx(log, hash, note, time) ==
    LET s == << [hash |-> hash, note |-> note, time |-> time] >> \o log
    IN  SubSeq(s, 1, IF Len(s) > MaxTxs THEN MaxTxs ELSE Len(s))

\* The mount effect: listAccounts() settles; with an authorized account it calls
\* connectWallet(), which runs up to its await of eth_requestAccounts.
AutoConnectSettle(t, ok, authorized) ==
    /\ root = "ExitVaultUI"
    /\ t \in tasks /\ t.op = "autoConnect"
    /\ tasks' = IF ok /\ authorized
                THEN (tasks \ {t}) \cup {[t EXCEPT !.op = "ui.connect", !.pc = "requestAccounts"]}
                ELSE tasks \ {t}
    /\ hist' = Step(IF ok /\ authorized THEN "autoConnect.connect" ELSE "autoConnect.none", t.id)
    /\ UNCHANGED << root, hasWallet, mounted, account, contract, signer, balance, amount, message,
                    txs, handles, listeners, clock, counts, AppVars, ChainVars >>

\* Click on Connect Wallet (rendered while account is null).
UIConnectClick ==
    /\ root = "ExitVaultUI"
    /\ account = NULL
    /\ counts.connects < MaxConnects
    /\ CanAct
    /\ ~hasWallet \/ CanStart
    /\ counts' = [counts EXCEPT !.connects = @ + 1, !.stimuli = @ + 1]
    /\ IF ~hasWallet
       THEN /\ message' = "No injected wallet found (install MetaMask)"
            /\ tasks' = tasks
            /\ hist' = Step("ui.connect.nowallet", 0)
       ELSE /\ message' = message
            /\ tasks' = tasks \cup
                  {Task(NewId, "ui.connect", "requestAccounts", contract, account, 0, NULL)}
            /\ hist' = Step("ui.connect.start", NewId)
    /\ UNCHANGED << root, hasWallet, mounted, account, contract, signer, balance, amount, txs,
                    handles, listeners, clock, AppVars, ChainVars >>

\* listenEvents(c): removeAllListeners on c, then one Invest and one Withdraw
\* listener on c; the listeners of other Contract objects are not touched.  The
\* listener keeps the account of the render that created connectWallet.
listenEvents(ls, c, closureAccount) ==
    [h \in 1..c |-> IF h = c THEN [n |-> 1, account |-> closureAccount] ELSE ls[h]]

\* An await of ExitVaultUI.connectWallet resolves; after getAddress the state is
\* set, fetchBalance(c, account) is started and listenEvents(c) is called.
UIConnectResolve(t, addr) ==
    /\ root = "ExitVaultUI"
    /\ t \in tasks /\ t.op = "ui.connect" /\ t.pc # "getBalance"
    /\ \/ /\ t.pc = "requestAccounts"
          /\ tasks' = (tasks \ {t}) \cup {[t EXCEPT !.pc = "getSigner", !.awaits = @ + 1]}
          /\ hist' = Step("ui.connect.authorized", t.id)
          /\ UNCHANGED << account, contract, signer, message, handles, listeners >>
       \/ /\ t.pc = "getSigner"
          /\ tasks' = (tasks \ {t}) \cup {[t EXCEPT !.pc = "getAddress", !.awaits = @ + 1]}
          /\ hist' = Step("ui.connect.signer", t.id)
          /\ UNCHANGED << account, contract, signer, message, handles, listeners >>
       \/ /\ t.pc = "getAddress"
          /\ signer' = addr
          /\ account' = addr
          /\ handles' = Append(handles, addr)
          /\ contract' = Len(handles) + 1
          /\ message' = "Wallet connected: " \o addr
          /\ listeners' = listenEvents(listeners, Len(handles) + 1, t.addr)
          /\ tasks' = (tasks \ {t}) \cup
                      {[t EXCEPT !.pc = "getBalance", !.awaits = @ + 1,
                                 !.vault = Len(handles) + 1, !.addr = addr, !.reads = 1]}
          /\ hist' = Step("ui.connect.done", t.id)
    /\ UNCHANGED << root, hasWallet, mounted, balance, amount, txs, clock, counts, AppVars, ChainVars >>

\* Any await of ExitVaultUI.connectWallet rejects.
UIConnectReject(t, err) ==
    /\ root = "ExitVaultUI"
    /\ t \in tasks /\ t.op = "ui.connect" /\ t.pc # "getBalance"
    /\ message' = "Failed to connect wallet: " \o err.message
    /\ tasks' = tasks \ {t}
    /\ hist' = Step("ui.connect.failed", t.id)
    /\ UNCHANGED << root, hasWallet, mounted, account, contract, signer, balance, amount, txs,
                    handles, listeners, clock, counts, AppVars, ChainVars >>

\* Click on Disconnect (rendered while account is set).
Disconnect ==
    /\ root = "ExitVaultUI"
    /\ account # NULL
    /\ CanAct
    /\ account' = NULL
    /\ contract' = 0
    /\ signer' = NULL
    /\ message' = "Disconnected"
    /\ counts' = [counts EXCEPT !.stimuli = @ + 1]
    /\ hist' = Step("ui.disconnect", 0)
    /\ UNCHANGED << root, hasWallet, mounted, balance, amount, txs, tasks, handles, listeners,
                    clock, AppVars, ChainVars >>

\* The await of c.getBalance(addr) in fetchBalance settles.
GetBalanceSettle(t, ok, err) ==
    /\ root = "ExitVaultUI"
    /\ t \in tasks /\ t.pc = "getBalance"
    /\ balance' = BalanceAfterRead(t.addr, ok)
    /\ message' = IF ok THEN message ELSE "Failed to fetch balance: " \o err.message
    /\ tasks' = tasks \ {t}
    /\ hist' = [Step(t.op \o ".balance", t.id) EXCEPT
                   !.fetchOk = ok, !.reads = t.reads, !.receipt = t.receipt,
                   !.shown = t.shown, !.base = t.base, !.value = t.value,
                   !.vault = t.vault, !.addr = t.addr]
    /\ UNCHANGED << root, hasWallet, mounted, account, contract, signer, amount, txs, handles,
                    listeners, clock, counts, AppVars, ChainVars >>

\* Click on Refresh: fetchBalance() with the defaults contract and account.
UIRefreshClick ==
    /\ root = "ExitVaultUI"
    /\ counts.refreshes < MaxRefreshes
    /\ CanAct
    /\ contract = 0 \/ account = NULL \/ CanStart
    /\ counts' = [counts EXCEPT !.refreshes = @ + 1, !.stimuli = @ + 1]
    /\ IF contract = 0 \/ account = NULL
       THEN /\ tasks' = tasks
            /\ hist' = Step("ui.refresh.nocontract", 0)
       ELSE /\ tasks' = tasks \cup
                  {[Task(NewId, "fetchBalance", "getBalance", contract, account, 0, NULL)
                       EXCEPT !.reads = 1]}
            /\ hist' = Step("ui.refresh.start", NewId)
    /\ UNCHANGED << root, hasWallet, mounted, account, contract, signer, balance, amount, message,
                    txs, handles, listeners, clock, AppVars, ChainVars >>

\* Typing into the invest input.
SetInputEth(s) ==
    /\ root = "ExitVaultUI"
    /\ s # amount
    /\ CanAct
    /\ amount' = s
    /\ counts' = [counts EXCEPT !.stimuli = @ + 1]
    /\ hist' = Step("ui.setInput", 0)
    /\ UNCHANGED << root, hasWallet, mounted, account, contract, signer, balance, message, txs,
                    tasks, handles, listeners, clock, AppVars, ChainVars >>

\* Click on Invest: doInvest up to its await of signer.sendTransaction.
doInvestClick ==
    /\ root = "ExitVaultUI"
    /\ CanAct
    /\ IF contract = 0 \/ signer = NULL
       THEN /\ message' = "Connect wallet first"
            /\ hist' = Step("doInvest.nocontract", 0)
            /\ counts' = [counts EXCEPT !.stimuli = @ + 1]
            /\ tasks' = tasks
       ELSE IF amount = "" \/ NumberLeqZero(amount)
       THEN /\ message' = "Enter valid ETH amount"
            /\ hist' = Step("doInvest.badamount", 0)
            /\ counts' = [counts EXCEPT !.stimuli = @ + 1]
            /\ tasks' = tasks
       ELSE /\ counts.actions < MaxActions
            /\ CanStart
            /\ counts' = [counts EXCEPT !.actions = @ + 1, !.stimuli = @ + 1]
            /\ IF parseEther(amount).ok
               THEN /\ message' = "Sending transaction..."
                    /\ tasks' = tasks \cup
                          {[Task(NewId, "doInvest", "submit", contract, account,
                                 parseEther(amount).value, NULL) EXCEPT !.text = amount]}
                    /\ hist' = Step("doInvest.start", NewId)
               ELSE /\ message' = "Tx failed: " \o "invalid FixedNumber string value"
                    /\ tasks' = tasks
                    /\ hist' = Step("doInvest.parseThrew", NewId)
    /\ UNCHANGED << root, hasWallet, mounted, account, contract, signer, balance, amount, txs,
                    handles, listeners, clock, AppVars, ChainVars >>

\* Click on Withdraw: the prompt is answered with `answer`; doWithdraw runs up to
\* its await of contract.withdraw(wei).
doWithdrawClick(answer) ==
    /\ root = "ExitVaultUI"
    /\ CanAct
    /\ IF contract = 0 \/ signer = NULL
       THEN /\ message' = "Connect wallet first"
            /\ hist' = Step("doWithdraw.nocontract", 0)
            /\ counts' = [counts EXCEPT !.stimuli = @ + 1]
            /\ tasks' = tasks
       ELSE IF answer = ""
       THEN /\ message' = message
            /\ hist' = Step("doWithdraw.cancelled", 0)
            /\ counts' = [counts EXCEPT !.stimuli = @ + 1]
            /\ tasks' = tasks
       ELSE /\ counts.actions < MaxActions
            /\ CanStart
            /\ counts' = [counts EXCEPT !.actions = @ + 1, !.stimuli = @ + 1]
            /\ IF parseEther(answer).ok
               THEN /\ message' = "Sending withdraw tx..."
                    /\ tasks' = tasks \cup
                          {[Task(NewId, "doWithdraw", "submit", contract, account,
                                 parseEther(answer).value, NULL) EXCEPT !.text = answer]}
                    /\ hist' = Step("doWithdraw.start", NewId)
               ELSE /\ message' = "Withdraw failed: " \o "invalid FixedNumber string value"
                    /\ tasks' = tasks
                    /\ hist' = Step("doWithdraw.parseThrew", NewId)
    /\ UNCHANGED << root, hasWallet, mounted, account, contract, signer, balance, amount, txs,
                    handles, listeners, clock, AppVars, ChainVars >>

IsUIAction(t) == t.op \in {"doInvest", "doWithdraw"}

\* signer.sendTransaction / contract.withdraw resolves with a transaction response.
UISubmitResolve(t) ==
    /\ root = "ExitVaultUI"
    /\ t \in tasks /\ IsUIAction(t) /\ t.pc = "submit"
    /\ counts' = [counts EXCEPT !.nonce = @ + 1]
    /\ clock' = clock + 1
    /\ txs' = addTx(txs, TxHashOf(counts.nonce + 1),
                    IF t.op = "doInvest" THEN "Invest (sent)"
                    ELSE "Withdraw initiated " \o t.text \o " ETH", clock + 1)
    /\ message' = IF t.op = "doInvest" THEN "Waiting for confirmation..." ELSE message
    /\ tasks' = (tasks \ {t}) \cup
                {[t EXCEPT !.pc = "wait", !.hash = TxHashOf(counts.nonce + 1),
                           !.sentAt = clock + 1]}
    /\ hist' = Step(t.op \o ".submitted", t.id)
    /\ UNCHANGED << root, hasWallet, mounted, account, contract, signer, balance, amount, handles,
                    listeners, AppVars, ChainVars >>

\* The catch block of doInvest / doWithdraw, for a rejected submission or wait.
UIActionReject(t, err) ==
    /\ root = "ExitVaultUI"
    /\ t \in tasks /\ IsUIAction(t) /\ t.pc \in {"submit", "wait"}
    /\ message' = (IF t.op = "doInvest" THEN "Tx failed: " ELSE "Withdraw failed: ")
                  \o err.message
    /\ tasks' = tasks \ {t}
    /\ hist' = [Step(t.op \o (IF t.pc = "submit" THEN ".submitThrew" ELSE ".waitThrew"), t.id)
                   EXCEPT !.code = err.code, !.dataCode = err.dataCode]
    /\ UNCHANGED << root, hasWallet, mounted, account, contract, signer, balance, amount, txs,
                    handles, listeners, clock, counts, AppVars, ChainVars >>

\* What a mined transaction does to the contract's balances: a transfer credits
\* the value to the sender, withdraw(wei) pays wei out of the sender's balance.
UIMined(t) ==
    LET sender == handles[t.vault]
    IN  [vaultBal EXCEPT ![sender] = IF t.op = "doInvest" THEN @ + t.value ELSE @ - t.value]

\* tx.wait() resolves (a withdrawal above the balance reverts, and wait throws);
\* the handler logs the confirmation and starts fetchBalance() with the contract
\* and account of the render the click came from.
UIWaitResolve(t) ==
    /\ root = "ExitVaultUI"
    /\ t \in tasks /\ IsUIAction(t) /\ t.pc = "wait"
    /\ t.op = "doWithdraw" => vaultBal[handles[t.vault]] >= t.value
    /\ vaultBal' = UIMined(t)
    /\ clock' = clock + 1
    /\ txs' = addTx(txs, t.hash,
                    IF t.op = "doInvest" THEN "Confirmed: Invest"
                    ELSE "Withdraw confirmed " \o t.text \o " ETH", clock + 1)
    /\ message' = IF t.op = "doInvest" THEN "Invest confirmed" ELSE "Withdraw confirmed"
    /\ amount' = IF t.op = "doInvest" THEN "" ELSE amount
    /\ tasks' = (tasks \ {t}) \cup
                {[t EXCEPT !.pc = "getBalance", !.reads = @ + 1, !.receipt = TRUE]}
    /\ hist' = Step(t.op \o ".confirmed", t.id)
    /\ UNCHANGED << root, hasWallet, mounted, account, contract, signer, balance, handles,
                    listeners, counts, chainId, AppVars >>

RECURSIVE Deliver(_, _, _, _, _)
\* One contract event runs every listener registered on the Contract objects
\* h..Len(ls): each listener calls addTx once.
Deliver(log, ls, h, entry, time) ==
    IF h > Len(ls) THEN log
    ELSE Deliver(IF ls[h].n > 0 THEN addTx(log, entry.hash, entry.note, time + 1) ELSE log,
                 ls, h + 1, entry, IF ls[h].n > 0 THEN time + 1 ELSE time)

ListenerCount == Cardinality({h \in 1..Len(listeners) : listeners[h].n > 0})

\* The contract emits Invest or Withdraw (investor, value).  A listener compares
\* the investor with the account of its closure, which is null (connectWallet is
\* only reachable from a render without account), so it never calls fetchBalance.
ContractEvent(kind, investor, value) ==
    /\ root = "ExitVaultUI"
    /\ counts.contractEvents < MaxContractEvents
    /\ CanAct
    /\ ListenerCount > 0
    /\ LET entry == [hash |-> "event:" \o investor \o ":" \o ToString(value),
                     note |-> kind \o " event " \o investor \o
                              (IF kind = "Invest" THEN " +" ELSE " -") \o
                              formatEther(value) \o " ETH"]
       IN  txs' = Deliver(txs, listeners, 1, entry, clock)
    /\ clock' = clock + ListenerCount
    /\ counts' = [counts EXCEPT !.contractEvents = @ + 1, !.stimuli = @ + 1]
    /\ hist' = Step("contractEvent", 0)
    /\ UNCHANGED << root, hasWallet, mounted, account, contract, signer, balance, amount, message,
                    tasks, handles, listeners, AppVars, ChainVars >>

(***************************************************************************)
(* Initial state and next-state relation.                                  *)
(***************************************************************************)
NoCounts ==
    [connects |-> 0, actions |-> 0, accounts |-> 0, chains |-> 0, refreshes |-> 0,
     contractEvents |-> 0, nonce |-> 0, stimuli |-> 0, mounts |-> 0]

InitialVaultBal == [a \in Addrs |-> IF a = "0xA1" THEN (3 * Unit) \div 2 ELSE 0]

\* A page that has just been loaded.  ExitVaultUI's mount effect has called
\* listAccounts() when a wallet is present.
FreshPage ==
    /\ root \in {"App", "ExitVaultUI"}
    /\ hasWallet \in BOOLEAN
    /\ account = NULL
    /\ contract = 0
    /\ signer = NULL
    /\ balance = IF root = "App" THEN "0" ELSE "0.0"
    /\ amount = ""
    /\ message = ""
    /\ txs = << >>
    /\ handles = << >>
    /\ listeners = << >>
    /\ clock = 0
    /\ vaultBal = InitialVaultBal
    /\ tasks = IF root = "ExitVaultUI" /\ hasWallet
               THEN {[id |-> 1, op |-> "autoConnect", pc |-> "listAccounts", vault |-> 0,
                      addr |-> NULL, value |-> 0, hash |-> NULL, text |-> "", reads |-> 0,
                      awaits |-> 0, receipt |-> FALSE, sentAt |-> 0, shown |-> "0.0",
                      base |-> 0]}
               ELSE {}

\* An ExitVaultUI page that has been in use: 0xA1 connected, PriorEvents Invest
\* events of 0xB2 were logged, and Disconnect was clicked.
UsedPage ==
    /\ root = "ExitVaultUI"
    /\ hasWallet = TRUE
    /\ account = NULL
    /\ contract = 0
    /\ signer = NULL
    /\ balance = formatEther(InitialVaultBal["0xA1"])
    /\ amount = ""
    /\ message = "Disconnected"
    /\ txs = [i \in 1..(IF PriorEvents > MaxTxs THEN MaxTxs ELSE PriorEvents) |->
                [hash |-> "event:0xB2:" \o ToString(Unit \div 2),
                 note |-> "Invest event 0xB2 +" \o formatEther(Unit \div 2) \o " ETH",
                 time |-> PriorEvents - i + 1]]
    /\ handles = << "0xA1" >>
    /\ listeners = << [n |-> 1, account |-> NULL] >>
    /\ clock = PriorEvents
    /\ vaultBal = InitialVaultBal
    /\ tasks = {}

Init ==
    /\ FreshPage \/ UsedPage
    /\ loading = FALSE
    /\ txStatus = NULL
    /\ txHash = NULL
    /\ explorerBase = EXPLORER_BY_CHAIN[1]
    /\ alertText = ""
    /\ chainId = 5
    /\ mounted = TRUE
    /\ subs = IF root = "App" THEN Subscribe(0) ELSE << >>
    /\ counts = NoCounts
    /\ hist = NoHist

AppNext ==
    \/ ConnectClick
    \/ \E t \in tasks, a \in Addrs : ConnectResolve(t, a)
    \/ \E t \in tasks, e \in ReadErrors : ConnectReject(t, e)
    \/ \E t \in tasks, ok \in BOOLEAN : GetNetworkSettle(t, ok)
    \/ \E t \in tasks, ok \in BOOLEAN, e \in ReadErrors : BalancesSettle(t, ok, e)
    \/ RefreshClick
    \/ \E s \in AmountInputs : SetAmount(s)
    \/ InvestClick
    \/ WithdrawClick
    \/ \E t \in tasks : SubmitResolve(t)
    \/ \E t \in tasks, e \in Errors : SubmitReject(t, e)
    \/ \E t \in tasks, r \in Receipts : WaitResolve(t, r)
    \/ \E t \in tasks, e \in Errors : WaitReject(t, e)
    \/ \E a \in AccountLists : onAccountsChanged(a)
    \/ \E c \in ChainIds : onChainChanged(c)
    \/ Unmount
    \/ Remount

UINext ==
    \/ \E t \in tasks, ok \in BOOLEAN, authorized \in BOOLEAN : AutoConnectSettle(t, ok, authorized)
    \/ UIConnectClick
    \/ \E t \in tasks, a \in Addrs : UIConnectResolve(t, a)
    \/ \E t \in tasks, e \in ReadErrors : UIConnectReject(t, e)
    \/ Disconnect
    \/ \E t \in tasks, ok \in BOOLEAN, e \in ReadErrors : GetBalanceSettle(t, ok, e)
    \/ UIRefreshClick
    \/ \E s \in AmountInputs : SetInputEth(s)
    \/ doInvestClick
    \/ \E s \in PromptInputs : doWithdrawClick(s)
    \/ \E t \in tasks : UISubmitResolve(t)
    \/ \E t \in tasks, e \in ReadErrors : UIActionReject(t, e)
    \/ \E t \in tasks : UIWaitResolve(t)
    \/ \E k \in {"Invest", "Withdraw"}, a \in Addrs : ContractEvent(k, a, Unit \div 2)

Next == AppNext \/ UINext

Spec == Init /\ [][Next]_vars

(***************************************************************************)
(* The claims.                                                             *)
(***************************************************************************)
RejectedText == "Transaction rejected by user."

\* The steps that end an invest or withdraw call that passed its guards.
ActionEndSteps ==
    {"invest.done", "withdraw.done", "invest.submitThrew", "withdraw.submitThrew",
     "invest.waitThrew", "withdraw.waitThrew", "invest.parseThrew"}

\* C1: when an invest or withdraw call of App has ended, txStatus is one of
\* pending, confirmed, failed; and once a new call has started, a status that is
\* shown was written by that call, never by an earlier one.
C1_StatusNeverStale ==
    /\ hist.step \in ActionEndSteps => txStatus \in {"pending", "confirmed", "failed"}
    /\ (hist.lastAction # 0 /\ txStatus # NULL) => hist.statusBy = hist.lastAction

\* C2: when an invest whose submission was accepted and whose receipt has status 1
\* has finished (its balance read having resolved), the message contains "confirmed", txStatus is confirmed and the
\* handler has read the balance exactly once.
C2_ConfirmedInvestFinalState ==
    (hist.step = "invest.done" /\ hist.receipt /\ hist.fetchOk) =>
        /\ Contains(message, "confirmed")
        /\ txStatus = "confirmed"
        /\ hist.reads = 1

\* C3: when the submission of invest or withdraw throws, the handler ends with
\* txStatus failed and without a balance read; the message is the user-rejection
\* text for an error whose code or data.code is 4001, and a generic failure
\* message otherwise.
C3_SubmissionThrew ==
    hist.step \in {"invest.submitThrew", "withdraw.submitThrew"} =>
        /\ txStatus = "failed"
        /\ hist.reads = 0
        /\ \A t \in tasks : t.id # hist.id
        /\ IF hist.code = 4001 \/ hist.dataCode = 4001
           THEN message = RejectedText
           ELSE /\ message # RejectedText
                /\ \/ hist.step = "invest.submitThrew" /\ Substr(message, 1, 19) = "Investment failed: "
                   \/ hist.step = "withdraw.submitThrew" /\ Substr(message, 1, 19) = "Withdrawal failed: "

C3_Witness ==
    /\ hist.step = "withdraw.submitThrew"
    /\ hist.code # 4001 /\ hist.dataCode = 4001
    /\ message = RejectedText
    /\ txStatus = "failed"

\* C4: the activity log of ExitVaultUI holds at most MaxTxs entries, newest
\* first: it is exactly the MaxTxs most recent addTx entries, so an entry added
\* to a full log evicts the oldest one.
C4_LogCappedNewestFirst ==
    /\ Len(txs) <= MaxTxs
    /\ Len(txs) = (IF clock > MaxTxs THEN MaxTxs ELSE clock)
    /\ \A i \in 1..Len(txs) : txs[i].time = clock - i + 1

C4_Witness ==
    /\ Len(txs) = MaxTxs
    /\ clock > MaxTxs
    /\ hist.step = "doWithdraw.confirmed"
    /\ txs[1].note = "Withdraw confirmed 0.5 ETH"
    /\ txs[2].hash = txs[1].hash

\* C5: an accountsChanged notification with an empty or missing list leaves App
\* with account and contract null and the message "Disconnected"; the Disconnect
\* control of ExitVaultUI leaves account, contract and signer null and the status
\* "Disconnected".
C5_DisconnectClears ==
    /\ hist.step = "accountsChanged.empty" =>
           account = NULL /\ contract = 0 /\ message = "Disconnected"
    /\ hist.step = "ui.disconnect" =>
           account = NULL /\ contract = 0 /\ signer = NULL /\ message = "Disconnected"

C5_Witness ==
    /\ hist.step = "accountsChanged.empty"
    /\ hist.callbacks > 0
    /\ counts.accounts = 1
    /\ account = NULL /\ contract = 0

\* The explorer of a chain id, as the claim states it.
C6_Expected(c) ==
    CASE c = 1 -> "https://etherscan.io"
      [] c = 5 -> "https://goerli.etherscan.io"
      [] c = 11155111 -> "https://sepolia.etherscan.io"
      [] OTHER -> "https://etherscan.io"

\* C6: explorerBaseForChain maps 1, 5 and 11155111 to their explorers and every
\* other chain id to the mainnet explorer; once a chain id has been reported (by
\* getNetwork on connect or by chainChanged), explorerBase is the explorer of the
\* chain reported last.
C6_ExplorerFollowsChain ==
    /\ \A c \in ChainIds \cup {0, 2, NaN} : explorerBaseForChain(c) = C6_Expected(c)
    /\ hist.hasReport => explorerBase = C6_Expected(hist.reported)

C6_Witness ==
    /\ hist.step = "chainChanged"
    /\ hist.reported = 11155111
    /\ hist.callbacks > 0
    /\ explorerBase = "https://sepolia.etherscan.io"

InvestRefreshed == hist.step \in {"invest.done", "doInvest.balance"} /\ hist.receipt

\* C7 as stated: after the refresh that follows a successful invest of A, the
\* displayed balance is the balance displayed before the invest plus A.
C7_BalanceIsPriorPlusAmount ==
    InvestRefreshed =>
        parseEther(balance).value = parseEther(hist.shown).value + hist.value

\* C7 amended: after a successful invest of A whose follow-up balance read
\* resolved, the displayed balance is the contract's balance of the refreshed
\* account; it is the balance displayed before plus A when that balance was the
\* sender's contract balance at the start, the refreshed account is the sender
\* and no other transaction changed the sender's balance in between.
C7_RefreshShowsContractBalance ==
    (InvestRefreshed /\ hist.fetchOk) =>
        /\ balance = formatEther(vaultBal[hist.addr])
        /\ ( /\ hist.addr = handles[hist.vault]
             /\ parseEther(hist.shown).value = hist.base
             /\ vaultBal[hist.addr] = hist.base + hist.value )
           => parseEther(balance).value = parseEther(hist.shown).value + hist.value

C7_Witness ==
    /\ hist.step = "invest.done" /\ hist.receipt /\ hist.fetchOk
    /\ hist.value > 0
    /\ hist.addr = handles[hist.vault]
    /\ parseEther(hist.shown).value = hist.base
    /\ vaultBal[hist.addr] = hist.base + hist.value
    /\ balance # hist.shown

ConnectsInFlight == Cardinality({t \in tasks : t.op = "connectWallet"})

\* C8: connectWallet calls onConnected at most once per invocation, only as the
\* step that follows the third resolved await (authorization, signer, address),
\* with the signer's address; without a wallet it alerts and does nothing else;
\* a failed step alerts, ends the call and calls nothing.
C8_ConnectorCallback ==
    /\ [](/\ hist.callbacks + ConnectsInFlight <= counts.connects
          /\ hist.step = "connect.onConnected" =>
                 /\ hist.awaits = 3
                 /\ account = hist.addr
                 /\ contract = Len(handles) /\ handles[contract] = hist.addr
          /\ hist.step = "connect.nowallet" =>
                 alertText = "MetaMask not detected" /\ tasks = {} /\ hist.callbacks = 0
          /\ hist.step = "connect.failed" =>
                 /\ Substr(alertText, 1, 26) = "Failed to connect wallet: "
                 /\ \A t \in tasks : t.id # hist.id)
    /\ [][hist'.step \in {"connect.failed", "connect.nowallet"} =>
              /\ hist'.callbacks = hist.callbacks
              /\ UNCHANGED << account, contract, handles, message >>]_vars
    /\ [][hist'.callbacks # hist.callbacks =>
              /\ hist'.callbacks = hist.callbacks + 1
              /\ hist'.step = "connect.onConnected"
              /\ \E t \in tasks : t.op = "connectWallet" /\ t.pc = "getAddress"
                                  /\ t.id = hist'.id /\ t.awaits = 2]_vars

C8_Witness ==
    /\ hist.step = "connect.failed"
    /\ hist.callbacks = 0
    /\ counts.connects = 1
    /\ alertText = "Failed to connect wallet: network error"
    /\ account = NULL

ReadEndSteps ==
    {"handleConnected.done", "fetchVaultBalance.done", "invest.done", "withdraw.done",
     "ui.connect.balance", "fetchBalance.balance", "doInvest.balance", "doWithdraw.balance"}

\* C9: a step in which a balance read fails sets a "Failed to fetch balance"
\* message and leaves the displayed balance, account, contract, txStatus and
\* txHash as they were.
C9_FailedReadFrame ==
    [][(hist'.step \in ReadEndSteps /\ ~hist'.fetchOk) =>
           /\ Substr(message', 1, 23) = "Failed to fetch balance"
           /\ UNCHANGED << balance, account, contract, txStatus, txHash >>]_vars

C9_Witness ==
    /\ hist.step = "invest.done" /\ hist.receipt /\ ~hist.fetchOk
    /\ Substr(message, 1, 23) = "Failed to fetch balance"
    /\ balance = hist.shown
    /\ balance # formatEther(vaultBal[hist.addr])

ActionPending == \E t \in tasks : IsAction(t) /\ t.pc \in {"submit", "wait"}

\* C10: in App a second invest or withdraw can be started while an earlier one
\* is pending: whenever the dashboard is shown with loading false and a contract,
\* Withdraw can be clicked, whatever is in flight. Every accepted submission
\* writes status pending and its own hash, and every receipt or failure writes
\* its own status and leaves the hash alone, whichever action was started last.
C10_SecondActionRaces ==
    /\ []((/\ root = "App" /\ mounted /\ account # NULL /\ ~loading /\ contract # 0
           /\ CanAct /\ CanStart /\ counts.actions < MaxActions)
          => ENABLED WithdrawClick)
    /\ [][hist'.step \in {"invest.submitted", "withdraw.submitted"} =>
              /\ txStatus' = "pending"
              /\ \E t \in tasks' : t.id = hist'.id /\ t.hash = txHash'
              /\ hist'.statusBy = hist'.id /\ hist'.hashBy = hist'.id]_vars
    /\ [][hist'.step \in {"invest.receipt", "withdraw.receipt", "invest.submitThrew",
                          "withdraw.submitThrew", "invest.waitThrew", "withdraw.waitThrew"} =>
              /\ txStatus' \in {"confirmed", "failed"}
              /\ txHash' = txHash
              /\ hist'.statusBy = hist'.id /\ hist'.hashBy = hist.hashBy]_vars

C10_Witness ==
    /\ root = "App" /\ mounted /\ counts.mounts = 0
    /\ \A t \in tasks : ~IsAction(t)
    /\ hist.lastAction # 0
    /\ hist.hashBy = hist.lastAction
    /\ hist.statusBy # hist.lastAction
    /\ txStatus = "failed"
    /\ txHash # NULL

\* C11: in App every change of txStatus is one of: any value to none at the start
\* of an invest/withdraw call, none to pending when the submission is accepted,
\* pending to confirmed on a receipt with status 1, pending to failed on another
\* receipt or a thrown wait, none to failed when the submission throws (a call
\* whose amount does not parse resets and fails in one synchronous run; a new
\* mount of App starts from none).
C11_StatusTransitions ==
    [][txStatus' # txStatus =>
          \/ txStatus' = NULL /\ hist'.step \in {"invest.start", "withdraw.start"}
          \/ /\ txStatus = NULL /\ txStatus' = "pending"
             /\ hist'.step \in {"invest.submitted", "withdraw.submitted"}
          \/ /\ txStatus = "pending" /\ txStatus' = "confirmed"
             /\ hist'.step \in {"invest.receipt", "withdraw.receipt"}
          \/ /\ txStatus = "pending" /\ txStatus' = "failed"
             /\ hist'.step \in {"invest.receipt", "withdraw.receipt",
                                "invest.waitThrew", "withdraw.waitThrew"}
          \/ /\ txStatus = NULL /\ txStatus' = "failed"
             /\ hist'.step \in {"invest.submitThrew", "withdraw.submitThrew"}
          \/ txStatus' = "failed" /\ hist'.step = "invest.parseThrew"
          \/ txStatus' = NULL /\ hist'.step = "mount"]_vars

\* C12: in App, whenever txStatus is pending or confirmed, txHash is non-null and
\* was written by the action that wrote the status; and when the action started
\* last has just failed at submission, txHash is null.
C12_HashMatchesStatus ==
    /\ txStatus \in {"pending", "confirmed"} =>
           txHash # NULL /\ hist.hashBy = hist.statusBy
    /\ (hist.step \in {"invest.submitThrew", "withdraw.submitThrew"}
            /\ hist.id = hist.lastAction) => txHash = NULL

IsSentNote(note) == note = "Invest (sent)" \/ Substr(note, 1, 19) = "Withdraw initiated "

IsConfirmedNote(note) == note = "Confirmed: Invest" \/ Substr(note, 1, 19) = "Withdraw confirmed "

\* C13: in ExitVaultUI an accepted submission appends one entry with the new
\* transaction's hash, its confirmation appends one more entry with the same
\* hash, newer than the submission entry (which is still in the log unless
\* MaxTxs newer entries evicted it), and no hash ever has more than two entries;
\* a confirmation entry is only appended by a call whose submission entry was.
C13_SentThenConfirmed ==
    /\ [](\A n \in 1..counts.nonce :
              Cardinality({i \in 1..Len(txs) : txs[i].hash = TxHashOf(n)}) <= 2)
    /\ [][hist'.step \in {"doInvest.submitted", "doWithdraw.submitted"} =>
              /\ clock' = clock + 1 /\ Len(txs') > 0
              /\ txs'[1].time = clock' /\ IsSentNote(txs'[1].note)
              /\ \A i \in 1..Len(txs) : txs[i].hash # txs'[1].hash
              /\ \E t \in tasks' : /\ t.id = hist'.id /\ t.pc = "wait"
                                   /\ t.hash = txs'[1].hash /\ t.sentAt = clock']_vars
    /\ [][hist'.step \in {"doInvest.confirmed", "doWithdraw.confirmed"} =>
              /\ clock' = clock + 1 /\ Len(txs') > 0
              /\ txs'[1].time = clock' /\ IsConfirmedNote(txs'[1].note)
              /\ \E t \in tasks : /\ t.id = hist'.id /\ t.pc = "wait" /\ t.sentAt > 0
                                  /\ txs'[1].hash = t.hash
                                  /\ clock' - t.sentAt < MaxTxs =>
                                         /\ clock' - t.sentAt + 1 <= Len(txs')
                                         /\ LET e == txs'[clock' - t.sentAt + 1]
                                            IN  e.hash = t.hash /\ IsSentNote(e.note)]_vars
    /\ [][clock' # clock /\ Len(txs') > 0 /\ IsConfirmedNote(txs'[1].note) =>
              hist'.step \in {"doInvest.confirmed", "doWithdraw.confirmed"}]_vars

C13_Witness ==
    /\ hist.step = "doInvest.confirmed"
    /\ Len(txs) >= 2
    /\ txs[1].note = "Confirmed: Invest"
    /\ \E j \in 2..Len(txs) : txs[j].hash = txs[1].hash /\ txs[j].note = "Invest (sent)"

\* C14: when the submission of an invest or withdraw throws, the action ends
\* failed (txStatus failed in App, a failure status in ExitVaultUI) and the
\* newest entry of the activity log is one appended by this step that records
\* the failure.
C14_FailureLogged ==
    /\ hist.step \in {"invest.submitThrew", "withdraw.submitThrew"} =>
           /\ txStatus = "failed"
           /\ Len(txs) > 0 /\ Contains(txs[1].note, "ailed")
    /\ hist.step \in {"doInvest.submitThrew", "doWithdraw.submitThrew"} =>
           /\ Contains(message, "failed")
           /\ Len(txs) > 0 /\ txs[1].time = clock /\ Contains(txs[1].note, "ailed")

\* C15: in App an accountsChanged notification with a non-empty list sets account
\* to the first address of the list and keeps the contract handle; with a handle
\* it starts exactly one balance read, of that address on that handle, and
\* without a handle it starts none.
C15_AdoptsFirstAccount ==
    [][hist'.step \in {"accountsChanged.fetch", "accountsChanged.nocontract"} =>
          /\ account' = hist'.addr /\ account' # NULL
          /\ contract' = contract /\ handles' = handles
          /\ IF contract # 0
             THEN /\ hist'.step = "accountsChanged.fetch"
                  /\ \E t \in tasks' \ tasks :
                         /\ tasks' = tasks \cup {t}
                         /\ t.pc = "balances" /\ t.vault = contract /\ t.addr = hist'.addr
             ELSE tasks' = tasks]_vars

C15_Witness ==
    /\ hist.step = "accountsChanged.fetch"
    /\ account = "0xB2" /\ hist.addr = "0xB2"
    /\ contract # 0 /\ handles[contract] = "0xA1"
    /\ \E t \in tasks : t.pc = "balances" /\ t.addr = "0xB2" /\ t.vault = contract

HandlerCount(event) == Cardinality({i \in 1..Len(subs) : subs[i].event = event})

\* C16: at most one accountsChanged handler and at most one chainChanged handler
\* of App are subscribed on the wallet at any time; while App is mounted with a
\* wallet there is exactly one of each, whose closure sees the current contract;
\* after App is torn down none remains.
C16_OneSubscription ==
    /\ HandlerCount("accountsChanged") <= 1
    /\ HandlerCount("chainChanged") <= 1
    /\ (root = "App" /\ mounted /\ hasWallet) =>
           /\ HandlerCount("accountsChanged") = 1 /\ HandlerCount("chainChanged") = 1
           /\ \A i \in 1..Len(subs) : subs[i].contract = contract
    /\ ~mounted => subs = << >>

C16_Witness ==
    /\ root = "App" /\ hasWallet
    /\ mounted /\ counts.mounts = 1
    /\ hist.step = "accountsChanged.empty"
    /\ counts.connects = 1 /\ Len(handles) = 1
    /\ Len(subs) = 2

InFlight == \E t \in tasks : t.op \in {"invest", "withdraw"} \/ t.pc = "balances"

\* C17: in App loading is true in every state in which an invest, a withdraw or
\* a balance read is in flight.
C17_LoadingWhileInFlight ==
    (root = "App" /\ mounted /\ InFlight) => loading

\* C18: in App a finished invest/withdraw whose balance read resolved leaves the
\* balance of the account that is displayed, and no step of an invest/withdraw
\* taken after a disconnect changes the balance or the "Disconnected" message.
C18_NoLateOverwrite ==
    [][hist'.step \in {"invest.submitted", "withdraw.submitted", "invest.receipt",
                       "withdraw.receipt", "invest.submitThrew", "withdraw.submitThrew",
                       "invest.waitThrew", "withdraw.waitThrew", "invest.done",
                       "withdraw.done"} =>
           /\ (hist'.step \in {"invest.done", "withdraw.done"} /\ hist'.fetchOk) =>
                  hist'.addr = account'
           /\ (account = NULL /\ message = "Disconnected") =>
                  message' = "Disconnected" /\ balance' = balance]_vars

\* C19: in App account and contract are both null or both non-null.
C19_AccountIffContract ==
    root = "App" => (account = NULL <=> contract = 0)

\* C20: in ExitVaultUI no step leaves more than one pair of Invest/Withdraw
\* listeners active, every contract event that reaches the component appends
\* exactly one activity entry, and none reaches it while disconnected.
C20_OneListenerPair ==
    [][/\ ListenerCount' <= 1
       /\ hist'.step = "contractEvent" =>
              /\ clock' = clock + 1
              /\ account # NULL /\ contract # 0]_vars

ActionFinishSteps ==
    {"invest.done", "withdraw.done", "invest.submitThrew", "withdraw.submitThrew",
     "invest.waitThrew", "withdraw.waitThrew", "invest.parseThrew"}

\* C21 (final state): in App the step in which an invest or withdraw finishes
\* ends the call (no failure goes on past the handler), after at most one
\* submission, and leaves txStatus confirmed or failed and loading false.
C21_FinishesSettled ==
    hist.step \in ActionFinishSteps =>
        /\ \A t \in tasks : t.id # hist.id
        /\ txStatus \in {"confirmed", "failed"}
        /\ ~loading

\* The provider answers the pending call of the invest or withdraw with id i:
\* the awaited promise resolves or rejects and the handler runs on.
Settles(i) ==
    \E t \in tasks :
        /\ t.id = i /\ IsAction(t)
        /\ \/ SubmitResolve(t)
           \/ \E e \in Errors : SubmitReject(t, e)
           \/ \E r \in Receipts : WaitResolve(t, r)
           \/ \E e \in Errors : WaitReject(t, e)
           \/ \E ok \in BOOLEAN, e \in ReadErrors : BalancesSettle(t, ok, e)

\* The page under the assumption that no awaited call of an action stays
\* pending for ever.
LiveSpec == Spec /\ \A i \in 1..MaxInFlight : WF_vars(Settles(i))

\* C21 (termination): under LiveSpec every invest or withdraw in flight comes
\* to its finishing step, unless the component is unmounted first.
C21_Terminates ==
    \A i \in 1..MaxInFlight :
        (\E t \in tasks : t.id = i /\ IsAction(t))
            ~> (\/ hist.id = i /\ hist.step \in ActionFinishSteps
                \/ hist.step = "unmount")

\* C21 (no retry): a call reaches a submission only from the click that
\* started it, and a call that left the submission never comes back to it.
C21_OneSubmission ==
    [][\A t \in tasks' :
          (IsAction(t) /\ t.pc = "submit" /\ t \notin tasks)
              => (hist'.step \in {"invest.start", "withdraw.start"} /\ hist'.id = t.id)]_vars

====
